---- MODULE Spec2Model ----
(***************************************************************************)
(* A model of the rspamd-base32 crate (vstakhov/rust-base32):              *)
(*   src/src/alphabet.rs  Alphabet, from_str_unsafe, from_str_order        *)
(*   src/src/encode.rs    encoded_len, encode_alphabet_slice,              *)
(*                        encode_alphabet                                  *)
(*   src/src/decode.rs    decoded_len, decode_alphabet_vec,                *)
(*                        decode_alphabet                                  *)
(* Bytes are the integers 0..255 and strings are sequences of bytes.  Rust *)
(* slices are 0-based; the sequences here are 1-based, so source_bytes[i]  *)
(* is source[i + 1].  A panic (index out of bounds) is a value of its own, *)
(* tag "Panic", never an Ok and never an Err.                              *)
(*                                                                         *)
(* Three specifications:                                                     *)
(*   Spec          the codec: a caller fills a byte buffer, encodes it and *)
(*                 decodes the text, or decodes the buffer as it stands    *)
(*   SpecAlphabet  alphabet construction: a caller edits a symbol string   *)
(*                 and hands it to the validating constructor              *)
(*   SpecReuse     the decoder called again and again with one Vec, which  *)
(*                 the caller never clears                                 *)
(***************************************************************************)
EXTENDS Integers, Sequences, FiniteSets, TLC

VARIABLES
    alph,        \* Spec: the name of the alphabet the calls use
    byte_buf,    \* Spec: the caller's input bytes (tests.rs byte_buf)
    encoded,     \* Spec: the String encode_alphabet returned
    decode_buf,  \* Spec: the caller's Vec handed to decode_alphabet_vec
    ret,         \* Spec: what the last decode call returned
    pc,          \* Spec, SpecReuse: the caller's position
    sliced,      \* Spec: how the last encode_alphabet_slice call ended
    before,      \* SpecReuse: the caller's Vec as the last call received it
    source,      \* SpecAlphabet: the symbol string
    order,       \* SpecAlphabet: the EncodeOrder asked for
    parsed,      \* SpecAlphabet: what the constructor returned
    edits,       \* SpecAlphabet: edits made to the symbol string so far
    apc          \* SpecAlphabet: the caller's position

vars == <<alph, byte_buf, encoded, decode_buf, ret, pc, sliced, before,
          source, order, parsed, edits, apc>>

codecVars == <<alph, byte_buf, encoded, decode_buf, ret, pc, sliced, before>>
alphabetVars == <<source, order, parsed, edits, apc>>

(***************************************************************************)
(* Bounds of the model.                                                    *)
(***************************************************************************)
\* longest byte buffer a caller fills
MaxLen == 8
\* most edits a caller makes to a built-in symbol string
MaxEdits == 2
\* SpecReuse: the longest text handed to the decoder
MaxText == 4

(***************************************************************************)
(* Machine integers.                                                       *)
(***************************************************************************)
\* u8::MAX
U8_MAX == 255
\* usize::MAX of a 16-bit target, the narrowest usize Rust has
USIZE_MAX == 65535

Pow2(n) == 2 ^ n

\* x << n and x >> n on non-negative values that stay below 2^31
Shl(x, n) == x * Pow2(n)
Shr(x, n) == x \div Pow2(n)

RECURSIVE BitAnd(_, _)
BitAnd(a, b) ==
    IF a = 0 \/ b = 0 THEN 0
    ELSE (IF a % 2 = 1 /\ b % 2 = 1 THEN 1 ELSE 0)
         + 2 * BitAnd(a \div 2, b \div 2)

RECURSIVE BitOr(_, _)
BitOr(a, b) ==
    IF a = 0 THEN b
    ELSE IF b = 0 THEN a
    ELSE (IF a % 2 = 1 \/ b % 2 = 1 THEN 1 ELSE 0)
         + 2 * BitOr(a \div 2, b \div 2)

\* Option<usize>
None == [some |-> FALSE, val |-> 0]
Some(v) == [some |-> TRUE, val |-> v]

checked_mul(a, b) == IF a * b > USIZE_MAX THEN None ELSE Some(a * b)
checked_add(a, b) == IF a + b > USIZE_MAX THEN None ELSE Some(a + b)

(***************************************************************************)
(* alphabet.rs                                                             *)
(***************************************************************************)
ALPHABET_SIZE == 32

OrderInversed == "OrderInversed"
OrderNormal == "OrderNormal"
EncodeOrder == {OrderInversed, OrderNormal}

\* struct Alphabet: encode_symbols is [u8; 32], indexed 0..31, and
\* decode_bytes is [u8; u8::MAX as usize], that is 255 entries indexed 0..254
Alphabet(symbols, decode_bytes, encode_order) ==
    [encode_symbols |-> symbols,
     decode_bytes |-> decode_bytes,
     encode_order |-> encode_order]

\* the while loop of from_str_unsafe, from `index` on
RECURSIVE from_str_unsafe_loop(_, _, _, _)
from_str_unsafe_loop(source_bytes, index, symbols, decode_bytes) ==
    IF index < ALPHABET_SIZE
    THEN LET sym == source_bytes[index + 1]
         IN  from_str_unsafe_loop(source_bytes, index + 1,
                 [symbols EXCEPT ![index] = sym],
                 [decode_bytes EXCEPT ![sym] = index])
    ELSE [symbols |-> symbols, decode_bytes |-> decode_bytes]

\* Alphabet::from_str_unsafe; called only with strings of 32 bytes below 255
from_str_unsafe(alphabet, encode_order) ==
    LET done == from_str_unsafe_loop(alphabet, 0,
                    [i \in 0..(ALPHABET_SIZE - 1) |-> 0],
                    [c \in 0..(U8_MAX - 1) |-> 255])
    IN  Alphabet(done.symbols, done.decode_bytes, encode_order)

FIRST_PRINTABLE == 32
LAST_PRINTABLE == 126
DUPS_SIZE == LAST_PRINTABLE - FIRST_PRINTABLE

NoAlphabet == Alphabet(<<>>, <<>>, OrderNormal)

\* Result<Alphabet, ParseAlphabetError>, and the panic of an index out of bounds
ParseOk(a) == [tag |-> "Ok", byte |-> 0, alphabet |-> a]
ParseInvalidLength == [tag |-> "InvalidLength", byte |-> 0, alphabet |-> NoAlphabet]
ParseDuplicatedByte(b) == [tag |-> "DuplicatedByte", byte |-> b, alphabet |-> NoAlphabet]
ParseUnprintableByte(b) == [tag |-> "UnprintableByte", byte |-> b, alphabet |-> NoAlphabet]
ParsePanic == [tag |-> "Panic", byte |-> 0, alphabet |-> NoAlphabet]
NotParsed == [tag |-> "NotParsed", byte |-> 0, alphabet |-> NoAlphabet]

\* the while loop of from_str_order, from `index` on: "Pass" when it ends
RECURSIVE from_str_order_loop(_, _, _)
from_str_order_loop(source_bytes, index, dups) ==
    IF index < ALPHABET_SIZE
    THEN LET byte == source_bytes[index + 1]
             dup_idx == byte - FIRST_PRINTABLE
         IN  IF ~(byte >= FIRST_PRINTABLE /\ byte <= LAST_PRINTABLE)
             THEN ParseUnprintableByte(byte)
             ELSE IF dup_idx \notin DOMAIN dups
             THEN ParsePanic
             ELSE IF dups[dup_idx]
             THEN ParseDuplicatedByte(byte)
             ELSE from_str_order_loop(source_bytes, index + 1,
                      [dups EXCEPT ![dup_idx] = TRUE])
    ELSE [tag |-> "Pass", byte |-> 0, alphabet |-> NoAlphabet]

\* a faulty variant of from_str_order: the order asked for is dropped
from_str_order_drops_order(alphabet, encode_order) ==
    IF Len(alphabet) /= ALPHABET_SIZE
    THEN ParseInvalidLength
    ELSE LET checked == from_str_order_loop(alphabet, 0,
                            [i \in 0..(DUPS_SIZE - 1) |-> FALSE])
         IN  IF checked.tag = "Pass"
             THEN ParseOk(from_str_unsafe(alphabet, OrderNormal))
             ELSE checked

\* a faulty variant of from_str_order: printability is checked for the whole string
\* before any duplicate is looked for
from_str_order_two_passes(alphabet, encode_order) ==
    IF Len(alphabet) /= ALPHABET_SIZE
    THEN ParseInvalidLength
    ELSE IF \E i \in 1..ALPHABET_SIZE :
                ~(alphabet[i] >= FIRST_PRINTABLE /\ alphabet[i] <= LAST_PRINTABLE)
    THEN LET first == CHOOSE i \in 1..ALPHABET_SIZE :
                 /\ ~(alphabet[i] >= FIRST_PRINTABLE /\ alphabet[i] <= LAST_PRINTABLE)
                 /\ \A j \in 1..(i - 1) :
                        alphabet[j] >= FIRST_PRINTABLE /\ alphabet[j] <= LAST_PRINTABLE
         IN  ParseUnprintableByte(alphabet[first])
    ELSE LET checked == from_str_order_loop(alphabet, 0,
                            [i \in 0..(DUPS_SIZE - 1) |-> FALSE])
         IN  IF checked.tag = "Pass"
             THEN ParseOk(from_str_unsafe(alphabet, encode_order))
             ELSE checked

\* Alphabet::from_str_order
from_str_order(alphabet, encode_order) ==
    IF Len(alphabet) /= ALPHABET_SIZE
    THEN ParseInvalidLength
    ELSE LET checked == from_str_order_loop(alphabet, 0,
                            [i \in 0..(DUPS_SIZE - 1) |-> FALSE])
         IN  IF checked.tag = "Pass"
             THEN ParseOk(from_str_unsafe(alphabet, encode_order))
             ELSE checked

\* Alphabet::from_str
from_str(alphabet) == from_str_order(alphabet, OrderNormal)

\* "ybndrfg8ejkmcpqxot1uwisza345h769"
ZBASE32_STR ==
    <<121, 98, 110, 100, 114, 102, 103, 56, 101, 106, 107, 109, 99, 112, 113, 120,
      111, 116, 49, 117, 119, 105, 115, 122, 97, 51, 52, 53, 104, 55, 54, 57>>
\* "qpzry9x8gf2tvdw0s3jn54khce6mua7l"
BECH32_STR ==
    <<113, 112, 122, 114, 121, 57, 120, 56, 103, 102, 50, 116, 118, 100, 119, 48,
      115, 51, 106, 110, 53, 52, 107, 104, 99, 101, 54, 109, 117, 97, 55, 108>>
\* "ABCDEFGHIJKLMNOPQRSTUVWXYZ234567"
RFC_STR ==
    <<65, 66, 67, 68, 69, 70, 71, 72, 73, 74, 75, 76, 77, 78, 79, 80,
      81, 82, 83, 84, 85, 86, 87, 88, 89, 90, 50, 51, 52, 53, 54, 55>>

ZBASE32 == from_str_unsafe(ZBASE32_STR, OrderInversed)
BECH32 == from_str_unsafe(BECH32_STR, OrderNormal)
RFC == from_str_unsafe(RFC_STR, OrderNormal)

AlphabetNames == {"ZBASE32", "BECH32", "RFC"}

BuiltinStr(name) ==
    CASE name = "ZBASE32" -> ZBASE32_STR
      [] name = "BECH32" -> BECH32_STR
      [] name = "RFC" -> RFC_STR

BuiltinOrder(name) ==
    CASE name = "ZBASE32" -> OrderInversed
      [] name = "BECH32" -> OrderNormal
      [] name = "RFC" -> OrderNormal

AlphabetOf(name) ==
    CASE name = "ZBASE32" -> ZBASE32
      [] name = "BECH32" -> BECH32
      [] name = "RFC" -> RFC

(***************************************************************************)
(* encode.rs                                                               *)
(***************************************************************************)
\* a faulty variant of encoded_len: one symbol for each byte that remains
encoded_len_short(bytes_len) ==
    LET min_bytes == bytes_len \div 5
        rem == bytes_len % 5
        c == checked_mul(min_bytes, 8)
    IN  IF c.some THEN checked_add(c.val, rem + 1) ELSE None

encoded_len(bytes_len) ==
    LET min_bytes == bytes_len \div 5
        rem == bytes_len % 5
        c == checked_mul(min_bytes, 8)
    IN  IF c.some THEN checked_add(c.val, rem * 2 + 1) ELSE None

\* The state of encode_alphabet_slice: the output slice, the write index o,
\* remain, and whether a store has panicked (index out of bounds).  stores
\* is the history of the call: the indices it has stored at, in order.
EncodeState(buf, o, remain, panic) ==
    [buf |-> buf, o |-> o, remain |-> remain, panic |-> panic,
     stores |-> <<>>]

\* output_buf[o] = sym; o = o + 1
Store(st, sym) ==
    IF st.panic THEN st
    ELSE IF st.o < Len(st.buf)
    THEN [st EXCEPT !.buf[st.o + 1] = sym, !.o = st.o + 1,
                    !.stores = Append(st.stores, st.o)]
    ELSE [st EXCEPT !.panic = TRUE, !.stores = Append(st.stores, st.o)]

SetRemain(st, remain) == [st EXCEPT !.remain = remain]

\* OrderInversed, i % 5 = 0: 8 bits of input and 3 to remain
encode_inversed_0(encode_table, st, inp) ==
    LET x == inp
    IN  SetRemain(Store(st, encode_table[BitAnd(x, 31)]), Shr(x, 5))

\* OrderInversed, i % 5 = 1: 11 bits of input, 1 to remain
encode_inversed_1(encode_table, st, inp) ==
    LET x == BitOr(st.remain, Shl(inp, 3))
        s1 == Store(st, encode_table[BitAnd(x, 31)])
        s2 == Store(s1, encode_table[BitAnd(Shr(x, 5), 31)])
    IN  SetRemain(s2, Shr(x, 10))

\* OrderInversed, i % 5 = 2: 9 bits of input, 4 to remain
encode_inversed_2(encode_table, st, inp) ==
    LET x == BitOr(st.remain, Shl(inp, 1))
    IN  SetRemain(Store(st, encode_table[BitAnd(x, 31)]), Shr(x, 5))

\* OrderInversed, i % 5 = 3: 12 bits of input, 2 to remain
encode_inversed_3(encode_table, st, inp) ==
    LET x == BitOr(st.remain, Shl(inp, 4))
        s1 == Store(st, encode_table[BitAnd(x, 31)])
        s2 == Store(s1, encode_table[BitAnd(Shr(x, 5), 31)])
    IN  SetRemain(s2, BitAnd(Shr(x, 10), 3))

\* OrderInversed, i % 5 = 4: 10 bits of output, nothing to remain
encode_inversed_4(encode_table, st, inp) ==
    LET x == BitOr(st.remain, Shl(inp, 2))
        s1 == Store(st, encode_table[BitAnd(x, 31)])
        s2 == Store(s1, encode_table[BitAnd(Shr(x, 5), 31)])
    IN  SetRemain(s2, -1)

\* OrderNormal, i % 5 = 0: 8 bits of input and 3 to remain
encode_normal_0(encode_table, st, inp) ==
    LET x == Shr(inp, 3)
    IN  SetRemain(Store(st, encode_table[BitAnd(x, 31)]), Shl(BitAnd(inp, 7), 2))

\* OrderNormal, i % 5 = 1: 11 bits of input, 1 to remain
encode_normal_1(encode_table, st, inp) ==
    LET x == BitOr(Shl(st.remain, 6), inp)
        s1 == Store(st, encode_table[BitAnd(Shr(x, 6), 31)])
        s2 == Store(s1, encode_table[BitAnd(Shr(x, 1), 31)])
    IN  SetRemain(s2, Shl(BitAnd(x, 1), 4))

\* a faulty variant of encode_normal_2: the 4 bits that remain are not shifted up
encode_normal_2_unshifted(encode_table, st, inp) ==
    LET x == BitOr(Shl(st.remain, 4), inp)
    IN  SetRemain(Store(st, encode_table[BitAnd(Shr(x, 4), 31)]), BitAnd(x, 15))

\* OrderNormal, i % 5 = 2: 9 bits of input, 4 to remain
encode_normal_2(encode_table, st, inp) ==
    LET x == BitOr(Shl(st.remain, 4), inp)
    IN  SetRemain(Store(st, encode_table[BitAnd(Shr(x, 4), 31)]),
                  Shl(BitAnd(x, 15), 1))

\* OrderNormal, i % 5 = 3: 12 bits of input, 2 to remain
encode_normal_3(encode_table, st, inp) ==
    LET x == BitOr(Shl(st.remain, 7), inp)
        s1 == Store(st, encode_table[BitAnd(Shr(x, 7), 31)])
        s2 == Store(s1, encode_table[BitAnd(Shr(x, 2), 31)])
    IN  SetRemain(s2, Shl(BitAnd(x, 3), 3))

\* OrderNormal, i % 5 = 4: 10 bits of output, nothing to remain
encode_normal_4(encode_table, st, inp) ==
    LET x == BitOr(Shl(st.remain, 5), inp)
        s1 == Store(st, encode_table[BitAnd(Shr(x, 5), 31)])
        s2 == Store(s1, encode_table[BitAnd(x, 31)])
    IN  SetRemain(s2, -1)

\* one turn of the for loop: remain = match i % 5 { ... }
encode_step(alphabet, st, i, inp) ==
    LET encode_table == alphabet.encode_symbols
    IN  IF alphabet.encode_order = OrderInversed
        THEN CASE i % 5 = 0 -> encode_inversed_0(encode_table, st, inp)
               [] i % 5 = 1 -> encode_inversed_1(encode_table, st, inp)
               [] i % 5 = 2 -> encode_inversed_2(encode_table, st, inp)
               [] i % 5 = 3 -> encode_inversed_3(encode_table, st, inp)
               [] i % 5 = 4 -> encode_inversed_4(encode_table, st, inp)
        ELSE CASE i % 5 = 0 -> encode_normal_0(encode_table, st, inp)
               [] i % 5 = 1 -> encode_normal_1(encode_table, st, inp)
               [] i % 5 = 2 -> encode_normal_2(encode_table, st, inp)
               [] i % 5 = 3 -> encode_normal_3(encode_table, st, inp)
               [] i % 5 = 4 -> encode_normal_4(encode_table, st, inp)

\* for i in 0..input_bytes.len(), from i on; a panic ends the call
RECURSIVE encode_loop(_, _, _, _)
encode_loop(alphabet, input_bytes, i, st) ==
    IF i < Len(input_bytes) /\ ~st.panic
    THEN encode_loop(alphabet, input_bytes, i + 1,
                     encode_step(alphabet, st, i, input_bytes[i + 1]))
    ELSE st

\* a faulty variant of encode_alphabet_slice: the symbol of the bits that remain
\* after the last byte is not written
encode_alphabet_slice_no_tail(input, output_buf, alphabet) ==
    encode_loop(alphabet, input, 0, EncodeState(output_buf, 0, -1, FALSE))

\* encode_alphabet_slice: the state it ends in; its return value is .o
encode_alphabet_slice(input, output_buf, alphabet) ==
    LET st == encode_loop(alphabet, input, 0,
                          EncodeState(output_buf, 0, -1, FALSE))
    IN  IF ~st.panic /\ st.remain >= 0
        THEN Store(st, alphabet.encode_symbols[BitAnd(st.remain, 31)])
        ELSE st

\* what encode_alphabet gives back: a String, or the panic of an expect or
\* of an index out of bounds (String::from_utf8 cannot fail: the symbols of
\* an alphabet are ASCII)
EncodeOk(str) == [tag |-> "Ok", str |-> str]
EncodePanic == [tag |-> "Panic", str |-> <<>>]

\* vec![0; n]
Zeros(n) == [k \in 1..n |-> 0]

encode_alphabet(input, alphabet) ==
    LET encoded_size == encoded_len(Len(input))
    IN  IF ~encoded_size.some
        THEN EncodePanic
        ELSE LET st == encode_alphabet_slice(input, Zeros(encoded_size.val), alphabet)
             IN  IF st.panic
                 THEN EncodePanic
                 ELSE EncodeOk(SubSeq(st.buf, 1, st.o))

\* encode: the default alphabet
encode(input) == encode_alphabet(input, ZBASE32)

(***************************************************************************)
(* decode.rs                                                               *)
(***************************************************************************)
\* a faulty variant of decoded_len: the whole bytes of the symbols, 5 * n / 8
decoded_len_exact(bytes_len) ==
    LET c == checked_mul(bytes_len, 5)
    IN  IF c.some THEN Some(c.val \div 8) ELSE None

\* a faulty variant of decoded_len: the bytes of the full chunks only
decoded_len_full_chunks(bytes_len) ==
    LET full_chunks == bytes_len \div 8
    IN  checked_mul(full_chunks, 5)

decoded_len(bytes_len) ==
    LET full_chunks == bytes_len \div 8
        remainder == bytes_len % 8
        c == checked_mul(full_chunks, 5)
    IN  IF c.some THEN checked_add(c.val, remainder) ELSE None

\* Result<_, DecodeError>, and the panics: DecodePanic of an expect,
\* StorePanic of buffer[o] with o beyond the Vec, LookupPanic of
\* decode_bytes[c] with c beyond the table
DecodeOk(vec) == [tag |-> "Ok", index |-> 0, byte |-> 0, vec |-> vec]
InvalidByte(i, c) == [tag |-> "InvalidByte", index |-> i, byte |-> c, vec |-> <<>>]
InvalidLength(n) == [tag |-> "InvalidLength", index |-> n, byte |-> 0, vec |-> <<>>]
DecodePanic == [tag |-> "Panic", index |-> 0, byte |-> 0, vec |-> <<>>]
StorePanic(o) == [tag |-> "Panic", index |-> o, byte |-> 0, vec |-> <<>>]
LookupPanic(c) == [tag |-> "Panic", index |-> 0, byte |-> c, vec |-> <<>>]
NoCall == [tag |-> "None", index |-> 0, byte |-> 0, vec |-> <<>>]
Running == [tag |-> "Running", index |-> 0, byte |-> 0, vec |-> <<>>]

\* a faulty variant of Vec::resize: it grows the Vec and never shortens it
Resize_never_shortens(vec, new_len, value) ==
    IF new_len <= Len(vec)
    THEN vec
    ELSE vec \o [k \in 1..(new_len - Len(vec)) |-> value]

\* Vec::resize(new_len, value)
Resize(vec, new_len, value) ==
    IF new_len <= Len(vec)
    THEN SubSeq(vec, 1, new_len)
    ELSE vec \o [k \in 1..(new_len - Len(vec)) |-> value]

\* The state of decode_alphabet_vec: the Vec, the locals, and how the call
\* has ended (Running while it has not).
DecodeState(buffer, processed_bits, acc, o, i, end) ==
    [buffer |-> buffer, processed_bits |-> processed_bits, acc |-> acc,
     o |-> o, i |-> i, end |-> end]

\* buffer[o] = byte; o = o + 1
Emit(st, byte) ==
    IF st.o < Len(st.buffer)
    THEN [st EXCEPT !.buffer[st.o + 1] = byte, !.o = st.o + 1]
    ELSE [st EXCEPT !.end = StorePanic(st.o)]

\* alphabet.decode_bytes[*c as usize]: the table has 255 entries, 0..254
Lookup(alphabet, c) ==
    IF c \in DOMAIN alphabet.decode_bytes
    THEN [ok |-> TRUE, decoded |-> alphabet.decode_bytes[c]]
    ELSE [ok |-> FALSE, decoded |-> 0]

\* one turn of the OrderInversed loop
decode_inversed_step(alphabet, st, c) ==
    LET s1 == IF st.processed_bits >= 8
              THEN LET e == Emit([st EXCEPT !.processed_bits = st.processed_bits - 8],
                                 BitAnd(st.acc, 255) % 256)
                   IN  IF e.end = Running
                       THEN [e EXCEPT !.acc = Shr(st.acc, 8)]
                       ELSE e
              ELSE st
        l == Lookup(alphabet, c)
    IN  IF s1.end /= Running THEN s1
        ELSE IF ~l.ok THEN [s1 EXCEPT !.end = LookupPanic(c)]
        ELSE IF l.decoded = 255 THEN [s1 EXCEPT !.end = InvalidByte(s1.i, c)]
        ELSE [s1 EXCEPT
                 !.acc = BitOr(Shl(l.decoded, s1.processed_bits), s1.acc),
                 !.processed_bits = s1.processed_bits + 5,
                 !.i = s1.i + 1]

\* one turn of the OrderNormal loop
decode_normal_step(alphabet, st, c) ==
    LET l == Lookup(alphabet, c)
    IN  IF ~l.ok THEN [st EXCEPT !.end = LookupPanic(c)]
        ELSE IF l.decoded = 255 THEN [st EXCEPT !.end = InvalidByte(st.i, c)]
        ELSE LET acc == BitOr(Shl(st.acc, 5), l.decoded)
                 processed_bits == st.processed_bits + 5
                 s1 == IF processed_bits >= 8
                       THEN LET pb == processed_bits - 8
                                e == Emit([st EXCEPT !.processed_bits = pb],
                                          BitAnd(Shr(acc, pb), 255) % 256)
                            IN  IF e.end = Running
                                THEN [e EXCEPT !.acc = BitAnd(acc, Shl(1, pb) - 1)]
                                ELSE e
                       ELSE [st EXCEPT !.acc = acc,
                                       !.processed_bits = processed_bits]
             IN  IF s1.end = Running THEN [s1 EXCEPT !.i = s1.i + 1] ELSE s1

\* for c in input_bytes, from the k-th byte on; a return or a panic ends it
RECURSIVE decode_loop(_, _, _, _)
decode_loop(alphabet, input_bytes, k, st) ==
    IF k < Len(input_bytes) /\ st.end = Running
    THEN decode_loop(alphabet, input_bytes, k + 1,
             IF alphabet.encode_order = OrderInversed
             THEN decode_inversed_step(alphabet, st, input_bytes[k + 1])
             ELSE decode_normal_step(alphabet, st, input_bytes[k + 1]))
    ELSE st

\* what follows the OrderInversed loop: if processed_bits > 0 { ... }
decode_inversed_tail(st) ==
    IF st.processed_bits > 0
    THEN Emit(st, BitAnd(st.acc, 255) % 256)
    ELSE st

\* a faulty variant of decode_alphabet_vec: an Err leaves the Vec as the call
\* received it
decode_alphabet_vec_rolls_back(input, buffer, alphabet) ==
    LET estimate == decoded_len(Len(input))
    IN  IF ~estimate.some
        THEN [ret |-> DecodePanic, buffer |-> buffer]
        ELSE LET st0 == DecodeState(Resize(buffer, estimate.val, 0), 0, 0, 0, 0, Running)
                 st1 == decode_loop(alphabet, input, 0, st0)
                 st2 == IF st1.end = Running /\ alphabet.encode_order = OrderInversed
                        THEN decode_inversed_tail(st1)
                        ELSE st1
             IN  IF st2.end = Running
                 THEN [ret |-> DecodeOk(<<>>), buffer |-> Resize(st2.buffer, st2.o, 0)]
                 ELSE [ret |-> st2.end, buffer |-> buffer]

\* decode_alphabet_vec: what it returns (.ret) and the Vec it leaves (.buffer)
decode_alphabet_vec(input, buffer, alphabet) ==
    LET estimate == decoded_len(Len(input))
    IN  IF ~estimate.some
        THEN [ret |-> DecodePanic, buffer |-> buffer]
        ELSE LET st0 == DecodeState(Resize(buffer, estimate.val, 0), 0, 0, 0, 0, Running)
                 st1 == decode_loop(alphabet, input, 0, st0)
                 st2 == IF st1.end = Running /\ alphabet.encode_order = OrderInversed
                        THEN decode_inversed_tail(st1)
                        ELSE st1
             IN  IF st2.end = Running
                 THEN [ret |-> DecodeOk(<<>>), buffer |-> Resize(st2.buffer, st2.o, 0)]
                 ELSE [ret |-> st2.end, buffer |-> st2.buffer]

\* decode_alphabet: a Vec of its own, handed back on Ok
decode_alphabet(input, alphabet) ==
    LET estimate == decoded_len(Len(input))
    IN  IF ~estimate.some
        THEN DecodePanic
        ELSE LET r == decode_alphabet_vec(input, <<>>, alphabet)
             IN  IF r.ret.tag = "Ok" THEN DecodeOk(r.buffer) ELSE r.ret

\* decode: the default alphabet
decode(input) == decode_alphabet(input, ZBASE32)

(***************************************************************************)
(* Spec: a caller of the codec, as roundtrip_random of tests.rs: it clears *)
(* its buffers, fills byte_buf, encodes it and decodes the text; or it     *)
(* hands byte_buf itself to the decoder as text.                           *)
(***************************************************************************)
\* two symbols of the alphabet: the symbols of 0 (00000) and of 22 (10110)
SampleSymbols(name) ==
    {AlphabetOf(name).encode_symbols[0], AlphabetOf(name).encode_symbols[22]}

\* bytes of no alphabet (0, 165, 255), and "1", a symbol of ZBASE32 only; a
\* buffer takes one of them at most, at any place
WideBytes == {0, 49, 165, 255}

\* the inputs of the tests of encode.rs ("hello", "test123", "a", "aa",
\* "aaaaaaaa"), and three buffers as the random generator of tests.rs may
\* fill them
TestVectors ==
    {<<104, 101, 108, 108, 111>>,
     <<116, 101, 115, 116, 49, 50, 51>>,
     <<97>>,
     <<97, 97>>,
     <<97, 97, 97, 97, 97, 97, 97, 97>>,
     <<255, 255, 255, 255, 255, 255>>,
     <<0, 0, 0, 0, 0, 0, 0>>,
     <<165, 90, 255, 0, 128, 1, 254, 127, 200, 19, 76>>}

\* the bytes of a buffer that are not sample symbols
WideCount(name, buf) ==
    Cardinality({k \in 1..Len(buf) : buf[k] \notin SampleSymbols(name)})

\* no call of encode_alphabet_slice yet
NoSlice == EncodeState(<<>>, 0, -1, FALSE)

Init ==
    /\ alph \in AlphabetNames
    /\ byte_buf = <<>>
    /\ encoded = <<>>
    /\ decode_buf = <<>>
    /\ ret = NoCall
    /\ pc = "fill"
    /\ sliced = NoSlice
    /\ before = <<>>
    /\ source = <<>>
    /\ order = OrderNormal
    /\ parsed = NotParsed
    /\ edits = 0
    /\ apc = "idle"

\* byte_buf.push(b)
Push(b) ==
    /\ pc = "fill"
    /\ Len(byte_buf) < MaxLen
    /\ \/ b \in SampleSymbols(alph)
       \/ WideCount(alph, byte_buf) = 0
    /\ byte_buf' = Append(byte_buf, b)
    /\ UNCHANGED <<alph, encoded, decode_buf, ret, pc>>
    /\ UNCHANGED <<sliced, before>>
    /\ UNCHANGED alphabetVars

\* the caller takes the input of one of the tests of encode.rs
LoadVector(v) ==
    /\ pc = "fill"
    /\ byte_buf = <<>>
    /\ byte_buf' = v
    /\ UNCHANGED <<alph, encoded, decode_buf, ret, pc>>
    /\ UNCHANGED <<sliced, before>>
    /\ UNCHANGED alphabetVars

\* let encoded = encode_alphabet(&byte_buf, alphabet)
CallEncodeAlphabet ==
    /\ pc = "fill"
    /\ LET r == encode_alphabet(byte_buf, AlphabetOf(alph))
       IN  /\ encoded' = r.str
           /\ pc' = IF r.tag = "Ok" THEN "encoded" ELSE "encode_panic"
    /\ UNCHANGED <<alph, byte_buf, decode_buf, ret>>
    /\ UNCHANGED <<sliced, before>>
    /\ UNCHANGED alphabetVars

\* encode_alphabet_slice(&byte_buf, &mut buf[..], alphabet) with a buf of
\* encoded_len(byte_buf.len()) zeros, as encode_alphabet and the benchmark
\* size it
CallEncodeAlphabetSlice ==
    /\ pc = "fill"
    /\ encoded_len(Len(byte_buf)).some
    /\ sliced' = encode_alphabet_slice(byte_buf,
                                       Zeros(encoded_len(Len(byte_buf)).val),
                                       AlphabetOf(alph))
    /\ pc' = "sliced"
    /\ UNCHANGED <<alph, byte_buf, encoded, decode_buf, ret, before>>
    /\ UNCHANGED alphabetVars

\* decode_alphabet_vec(&encoded, &mut decode_buf, alphabet)
DecodeEncodedVec ==
    /\ pc = "encoded"
    /\ LET r == decode_alphabet_vec(encoded, decode_buf, AlphabetOf(alph))
       IN  /\ ret' = r.ret
           /\ decode_buf' = r.buffer
    /\ pc' = "rt_vec"
    /\ UNCHANGED <<alph, byte_buf, encoded>>
    /\ UNCHANGED <<sliced, before>>
    /\ UNCHANGED alphabetVars

\* decode_alphabet(&encoded, alphabet)
DecodeEncoded ==
    /\ pc = "encoded"
    /\ ret' = decode_alphabet(encoded, AlphabetOf(alph))
    /\ pc' = "rt"
    /\ UNCHANGED <<alph, byte_buf, encoded, decode_buf>>
    /\ UNCHANGED <<sliced, before>>
    /\ UNCHANGED alphabetVars

\* decode_alphabet_vec(&byte_buf, &mut decode_buf, alphabet): the buffer as text
DecodeRawVec ==
    /\ pc = "fill"
    /\ LET r == decode_alphabet_vec(byte_buf, decode_buf, AlphabetOf(alph))
       IN  /\ ret' = r.ret
           /\ decode_buf' = r.buffer
    /\ pc' = "raw_vec"
    /\ UNCHANGED <<alph, byte_buf, encoded>>
    /\ UNCHANGED <<sliced, before>>
    /\ UNCHANGED alphabetVars

\* decode_alphabet(&byte_buf, alphabet): the buffer as text
DecodeRaw ==
    /\ pc = "fill"
    /\ ret' = decode_alphabet(byte_buf, AlphabetOf(alph))
    /\ pc' = "raw"
    /\ UNCHANGED <<alph, byte_buf, encoded, decode_buf>>
    /\ UNCHANGED <<sliced, before>>
    /\ UNCHANGED alphabetVars

\* the next round: byte_buf.clear(); decode_buf.clear()
Clear ==
    /\ pc /= "fill"
    /\ alph' = alph
    /\ byte_buf' = <<>>
    /\ encoded' = <<>>
    /\ decode_buf' = <<>>
    /\ ret' = NoCall
    /\ pc' = "fill"
    /\ sliced' = NoSlice
    /\ UNCHANGED before
    /\ UNCHANGED alphabetVars

Next ==
    \/ \E b \in WideBytes : Push(b)
    \/ \E b \in SampleSymbols(alph) : Push(b)
    \/ \E v \in TestVectors : LoadVector(v)
    \/ CallEncodeAlphabet
    \/ CallEncodeAlphabetSlice
    \/ DecodeEncodedVec
    \/ DecodeEncoded
    \/ DecodeRawVec
    \/ DecodeRaw
    \/ Clear

Spec == Init /\ [][Next]_vars

(***************************************************************************)
(* What the claims on the codec speak of.                                  *)
(***************************************************************************)
\* the 32 symbols of an alphabet
Symbols(name) == {AlphabetOf(name).encode_symbols[v] : v \in 0..31}

AllSymbols(name, text) == \A k \in 1..Len(text) : text[k] \in Symbols(name)

\* the earliest position of text that holds no symbol
FirstInvalid(name, text) ==
    CHOOSE k \in 1..Len(text) :
        /\ text[k] \notin Symbols(name)
        /\ \A j \in 1..(k - 1) : text[j] \in Symbols(name)

RoundTripped == pc \in {"rt", "rt_vec"}
DecodedRaw == pc \in {"raw", "raw_vec"}
Encoded == pc \in {"encoded", "rt", "rt_vec"}

\* the bytes the last decode call handed back
Decoded == IF pc \in {"rt_vec", "raw_vec"} THEN decode_buf ELSE ret.vec

\* bit j of byte b, bit 0 the least significant
BitOf(b, j) == (b \div (2 ^ j)) % 2

\* bit p of the bit stream of `bytes`, the most significant bit of each byte
\* first; 0 past the end
StreamBitMsbFirst(bytes, p) ==
    IF p >= 8 * Len(bytes) THEN 0 ELSE BitOf(bytes[(p \div 8) + 1], 7 - (p % 8))

\* bit p of the little-endian value of `bytes`; 0 past the end
StreamBitLsbFirst(bytes, p) ==
    IF p >= 8 * Len(bytes) THEN 0 ELSE BitOf(bytes[(p \div 8) + 1], p % 8)

\* the k-th 5-bit group, k from 0
GroupNormal(bytes, k) ==
    16 * StreamBitMsbFirst(bytes, 5 * k) + 8 * StreamBitMsbFirst(bytes, 5 * k + 1)
    + 4 * StreamBitMsbFirst(bytes, 5 * k + 2) + 2 * StreamBitMsbFirst(bytes, 5 * k + 3)
    + StreamBitMsbFirst(bytes, 5 * k + 4)

GroupInverted(bytes, k) ==
    StreamBitLsbFirst(bytes, 5 * k) + 2 * StreamBitLsbFirst(bytes, 5 * k + 1)
    + 4 * StreamBitLsbFirst(bytes, 5 * k + 2) + 8 * StreamBitLsbFirst(bytes, 5 * k + 3)
    + 16 * StreamBitLsbFirst(bytes, 5 * k + 4)

\* ceil(8n / 5)
SymbolCount(n) == (8 * n + 4) \div 5

ReferenceEncoding(bytes, name) ==
    [k \in 1..SymbolCount(Len(bytes)) |->
        AlphabetOf(name).encode_symbols[
            IF AlphabetOf(name).encode_order = OrderNormal
            THEN GroupNormal(bytes, k - 1)
            ELSE GroupInverted(bytes, k - 1)]]

\* C1: decoding what encode_alphabet returned, with the same alphabet, by
\* decode_alphabet or decode_alphabet_vec, returns Ok with the bytes encoded.
C1_RoundTrip ==
    /\ pc /= "encode_panic"
    /\ RoundTripped => (ret.tag = "Ok" /\ Decoded = byte_buf)

\* C1's case: a buffer that crosses the 5-byte group and holds 255 came back
C1_Witness ==
    /\ pc = "rt_vec"
    /\ Len(byte_buf) > 5
    /\ \E k \in 1..Len(byte_buf) : byte_buf[k] = 255
    /\ ret.tag = "Ok"
    /\ decode_buf = byte_buf

\* C2: decoding a text that holds a byte which is no symbol of the alphabet
\* returns Err(InvalidByte(i, c)), i the 0-based offset of the first such byte
\* and c its value.
C2_InvalidByteReported ==
    (DecodedRaw /\ ~AllSymbols(alph, byte_buf)) =>
        ret = InvalidByte(FirstInvalid(alph, byte_buf) - 1,
                          byte_buf[FirstInvalid(alph, byte_buf)])

\* C3: symbol k of the output is the symbol of the k-th 5-bit group of the
\* input's bit stream (most significant bit first for OrderNormal, the
\* little-endian value for OrderInversed, the last group padded with zeros);
\* the output has ceil(8n/5) symbols, none of them "=", and is empty for the
\* empty input; ZBASE32 encodes "hello" as "em3ags7p" and "a" as "bd", RFC
\* encodes "hello" as "NBSWY3DP" and "test123" as "ORSXG5BRGIZQ".
C3_ReferenceBitPacking ==
    /\ pc /= "encode_panic"
    /\ Encoded =>
        /\ encoded = ReferenceEncoding(byte_buf, alph)
        /\ Len(encoded) = SymbolCount(Len(byte_buf))
        /\ \A k \in 1..Len(encoded) : encoded[k] /= 61
        /\ byte_buf = <<>> => encoded = <<>>
        /\ (alph = "ZBASE32" /\ byte_buf = <<104, 101, 108, 108, 111>>)
              => encoded = <<101, 109, 51, 97, 103, 115, 55, 112>>
        /\ (alph = "ZBASE32" /\ byte_buf = <<97>>) => encoded = <<98, 100>>
        /\ (alph = "RFC" /\ byte_buf = <<104, 101, 108, 108, 111>>)
              => encoded = <<78, 66, 83, 87, 89, 51, 68, 80>>
        /\ (alph = "RFC" /\ byte_buf = <<116, 101, 115, 116, 49, 50, 51>>)
              => encoded = <<79, 82, 83, 88, 71, 53, 66, 82, 71, 73, 90, 81>>

\* C3's case: "test123" was encoded with RFC and ends in a padded symbol
C3_Witness ==
    /\ pc = "encoded"
    /\ alph = "RFC"
    /\ byte_buf = <<116, 101, 115, 116, 49, 50, 51>>
    /\ Len(encoded) = 12

\* the symbols the claim gives for n % 5 bytes after the last whole group
ExtraSymbols(rem) ==
    CASE rem = 0 -> 0 [] rem = 1 -> 2 [] rem = 2 -> 4 [] rem = 3 -> 5 [] rem = 4 -> 7

\* C8: encoded_len(n) is 8 * (n / 5) plus 0, 2, 4, 5, 7 for n % 5 = 0..4,
\* the number of symbols the encoder emits for n bytes, and None only when
\* that number does not fit usize.
C8_EncodedLenExact ==
    Encoded =>
        LET n == Len(byte_buf)
            exact == 8 * (n \div 5) + ExtraSymbols(n % 5)
        IN  /\ encoded_len(n) = (IF exact > USIZE_MAX THEN None ELSE Some(exact))
            /\ exact = Len(encoded)

\* C9: for either bit order, decoding n symbols returns floor(5n/8) bytes:
\* the bits left after the last whole byte are dropped, never emitted as a
\* byte and never checked.
C9_LeftoverBitsDiscarded ==
    (DecodedRaw /\ AllSymbols(alph, byte_buf)) =>
        /\ ret.tag = "Ok"
        /\ Len(Decoded) = (5 * Len(byte_buf)) \div 8

\* C10: decoding a text of symbols, of any length, returns Ok, and no input
\* makes the decoder return InvalidLength.
C10_NoLengthError ==
    /\ ret.tag /= "InvalidLength"
    /\ (DecodedRaw /\ AllSymbols(alph, byte_buf)) => ret.tag = "Ok"
    /\ RoundTripped => ret.tag = "Ok"

\* C10's case: 6 symbols, a length no encoder output has, were decoded with
\* the inverted-order alphabet
C10_Witness ==
    /\ pc = "raw_vec"
    /\ alph = "ZBASE32"
    /\ Len(byte_buf) = 6
    /\ AllSymbols(alph, byte_buf)
    /\ ret.tag = "Ok"

\* a store of the decoder went beyond the Vec: buffer[o] with o >= len
StoredOutOfBounds == ret.tag = "Panic" /\ ret = StorePanic(ret.index)

\* the text the last decode call was given
DecodedText == IF RoundTripped THEN encoded ELSE byte_buf

\* C12: for every alphabet and every text of n bytes, symbols or not, no
\* store of decode_alphabet_vec is at an index beyond the Vec of
\* decoded_len(n) bytes, and an Ok result is at most decoded_len(n) long.
C12_StoresBelowDecodedLen ==
    (RoundTripped \/ DecodedRaw) =>
        /\ ~StoredOutOfBounds
        /\ ret.tag = "Ok" => Len(Decoded) <= decoded_len(Len(DecodedText)).val

\* C12's case: 8 symbols of the normal-order alphabet gave 5 bytes, all
\* decoded_len(8) allows, the last stored at index 4
C12_Witness ==
    /\ pc = "raw_vec"
    /\ alph = "RFC"
    /\ Len(byte_buf) = 8
    /\ ret.tag = "Ok"
    /\ Len(decode_buf) = 5
    /\ decoded_len(8) = Some(5)

\* C13: with an output slice of encoded_len(n) bytes, encode_alphabet_slice
\* stores at no index from encoded_len(n) on, and the count it returns is at
\* most encoded_len(n) and is the number of its stores, which go to the
\* indices 0, 1, ..., count - 1 in this order, once each.
C13_StoresWithinEncodedLen ==
    pc = "sliced" =>
        LET size == encoded_len(Len(byte_buf)).val
        IN  /\ ~sliced.panic
            /\ \A k \in 1..Len(sliced.stores) : sliced.stores[k] < size
            /\ sliced.o <= size
            /\ sliced.o = Len(sliced.stores)
            /\ \A k \in 1..Len(sliced.stores) : sliced.stores[k] = k - 1

\* C13's case: 7 bytes in a slice of 13: a full group of 8 symbols, then 4
\* more, the last of them the symbol of the bits that remain
C13_Witness ==
    /\ pc = "sliced"
    /\ Len(byte_buf) = 7
    /\ Len(sliced.buf) = 13
    /\ sliced.o = 12
    /\ sliced.stores[12] = 11

(***************************************************************************)
(* SpecAlphabet: a caller takes a built-in symbol string, edits it and     *)
(* hands it to the validating constructor.                                 *)
(***************************************************************************)
\* where a caller edits the string: the start, the middle and the end
EditPositions == {1, 2, 17, 32}
\* what a caller writes: form feed, the bytes around the printable range
\* (31, 32 and 126, 127) and the largest byte
EditBytes == {12, 31, 32, 126, 127, 255}
\* "x", as the test detects_length appends
AppendBytes == {120}

InitAlphabet ==
    /\ source \in {BuiltinStr(n) : n \in AlphabetNames}
    /\ order \in EncodeOrder
    /\ parsed = NotParsed
    /\ edits = 0
    /\ apc = "edit"
    /\ alph = "ZBASE32"
    /\ byte_buf = <<>>
    /\ encoded = <<>>
    /\ decode_buf = <<>>
    /\ ret = NoCall
    /\ pc = "fill"
    /\ sliced = NoSlice
    /\ before = <<>>

\* the caller overwrites one byte of the string
SetByte(i, b) ==
    /\ apc = "edit"
    /\ edits < MaxEdits
    /\ i <= Len(source)
    /\ source' = [source EXCEPT ![i] = b]
    /\ edits' = edits + 1
    /\ UNCHANGED <<order, parsed, apc>>
    /\ UNCHANGED codecVars

\* the caller repeats the byte at j at position i
CopyByte(i, j) ==
    /\ apc = "edit"
    /\ edits < MaxEdits
    /\ i <= Len(source)
    /\ j <= Len(source)
    /\ i /= j
    /\ source' = [source EXCEPT ![i] = source[j]]
    /\ edits' = edits + 1
    /\ UNCHANGED <<order, parsed, apc>>
    /\ UNCHANGED codecVars

\* the caller makes the string longer
AppendByte(b) ==
    /\ apc = "edit"
    /\ edits < MaxEdits
    /\ source' = Append(source, b)
    /\ edits' = edits + 1
    /\ UNCHANGED <<order, parsed, apc>>
    /\ UNCHANGED codecVars

\* the caller makes the string shorter
DropByte ==
    /\ apc = "edit"
    /\ edits < MaxEdits
    /\ Len(source) > 0
    /\ source' = SubSeq(source, 1, Len(source) - 1)
    /\ edits' = edits + 1
    /\ UNCHANGED <<order, parsed, apc>>
    /\ UNCHANGED codecVars

\* Alphabet::from_str_order(source, order)
CallFromStrOrder ==
    /\ apc = "edit"
    /\ parsed' = from_str_order(source, order)
    /\ apc' = "from_str_order"
    /\ UNCHANGED <<source, order, edits>>
    /\ UNCHANGED codecVars

\* Alphabet::from_str(source)
CallFromStr ==
    /\ apc = "edit"
    /\ parsed' = from_str(source)
    /\ apc' = "from_str"
    /\ UNCHANGED <<source, order, edits>>
    /\ UNCHANGED codecVars

\* the caller starts over with a built-in string
StartOver ==
    /\ apc /= "edit"
    /\ source' \in {BuiltinStr(n) : n \in AlphabetNames}
    /\ order' \in EncodeOrder
    /\ parsed' = NotParsed
    /\ edits' = 0
    /\ apc' = "edit"
    /\ UNCHANGED codecVars

NextAlphabet ==
    \/ \E i \in EditPositions, b \in EditBytes : SetByte(i, b)
    \/ \E i \in EditPositions, j \in EditPositions : CopyByte(i, j)
    \/ \E b \in AppendBytes : AppendByte(b)
    \/ DropByte
    \/ CallFromStrOrder
    \/ CallFromStr
    \/ StartOver

SpecAlphabet == InitAlphabet /\ [][NextAlphabet]_vars

(***************************************************************************)
(* What the claims on alphabet construction speak of.                      *)
(***************************************************************************)
Printable(b) == b >= 32 /\ b <= 126

\* position i of s holds a byte that an earlier position holds
Repeats(s, i) == \E j \in 1..(i - 1) : s[j] = s[i]

HasRepeat(s) == \E i \in 1..Len(s) : Repeats(s, i)
HasUnprintable(s) == \E i \in 1..Len(s) : ~Printable(s[i])

\* the earliest position that repeats an earlier one
FirstRepeat(s) ==
    CHOOSE i \in 1..Len(s) :
        Repeats(s, i) /\ \A k \in 1..(i - 1) : ~Repeats(s, k)

ValidSymbolSet(s) ==
    /\ Len(s) = 32
    /\ ~HasUnprintable(s)
    /\ ~HasRepeat(s)

Called == apc \in {"from_str", "from_str_order"}

\* C4: from_str_order returns Ok exactly for the strings of 32 distinct
\* bytes in 32..126, and an error value, never an abort, for every other.
C4_AcceptsExactlyValid ==
    Called =>
        /\ parsed.tag /= "Panic"
        /\ (parsed.tag = "Ok") <=> ValidSymbolSet(source)

\* C5: from_str returns DuplicatedByte(b), b the byte at the earliest
\* repeating position, for a 32-byte string of printable bytes with a repeat;
\* InvalidLength for a length other than 32; UnprintableByte(c) for a 32-byte
\* string with a non-printable byte c.  The last clause is read for strings
\* without a repeat and one non-printable value: the order of the two checks
\* is claim C6.
C5_RejectionPayloads ==
    apc = "from_str" =>
        /\ (Len(source) = 32 /\ ~HasUnprintable(source) /\ HasRepeat(source))
              => parsed = ParseDuplicatedByte(source[FirstRepeat(source)])
        /\ Len(source) /= 32 => parsed = ParseInvalidLength
        /\ (Len(source) = 32 /\ HasUnprintable(source) /\ ~HasRepeat(source))
              => /\ parsed.tag = "UnprintableByte"
                 /\ \E i \in 1..32 : ~Printable(source[i]) /\ parsed.byte = source[i]

C7_SameAsUnchecked ==
    \A n \in AlphabetNames :
        /\ (apc = "from_str_order" /\ source = BuiltinStr(n) /\ order = BuiltinOrder(n))
              => parsed = ParseOk(AlphabetOf(n))
        /\ (apc = "from_str" /\ source = BuiltinStr(n) /\ BuiltinOrder(n) = OrderNormal)
              => parsed = ParseOk(AlphabetOf(n))

\* C7's case: the inverted-order built-in went through the constructor
C7_Witness ==
    /\ apc = "from_str_order"
    /\ source = ZBASE32_STR
    /\ order = OrderInversed
    /\ parsed.tag = "Ok"
    /\ parsed.alphabet.encode_order = OrderInversed
    /\ parsed.alphabet.decode_bytes[57] = 31

(***************************************************************************)
(* SpecReuse: a caller decodes one text after another into the same Vec,   *)
(* as roundtrip_random of tests.rs does with decode_buf, but without the   *)
(* clear() between the calls; the Vec holds what the call before left, or, *)
(* at first, what the caller had in it.                                    *)
(***************************************************************************)
\* what the caller's Vec holds before the first call: nothing, one byte, or
\* more bytes than any text of the model decodes to
PriorVecs == {<<>>, <<85>>, <<170, 187, 204, 221, 238, 255>>}

InitReuse ==
    /\ alph \in AlphabetNames
    /\ byte_buf = <<>>
    /\ encoded = <<>>
    /\ decode_buf \in PriorVecs
    /\ before = <<>>
    /\ ret = NoCall
    /\ pc = "text"
    /\ sliced = NoSlice
    /\ source = <<>>
    /\ order = OrderNormal
    /\ parsed = NotParsed
    /\ edits = 0
    /\ apc = "idle"

\* the caller writes the next byte of the text
PushText(b) ==
    /\ pc = "text"
    /\ Len(byte_buf) < MaxText
    /\ \/ b \in SampleSymbols(alph)
       \/ WideCount(alph, byte_buf) = 0
    /\ byte_buf' = Append(byte_buf, b)
    /\ UNCHANGED <<alph, encoded, decode_buf, ret, pc, sliced, before>>
    /\ UNCHANGED alphabetVars

\* decode_alphabet_vec(&text, &mut decode_buf, alphabet), decode_buf as the
\* call before left it
CallDecodeAlphabetVec ==
    /\ pc = "text"
    /\ before' = decode_buf
    /\ LET r == decode_alphabet_vec(byte_buf, decode_buf, AlphabetOf(alph))
       IN  /\ ret' = r.ret
           /\ decode_buf' = r.buffer
    /\ pc' = "reused"
    /\ UNCHANGED <<alph, byte_buf, encoded, sliced>>
    /\ UNCHANGED alphabetVars

\* decode_alphabet(&text, alphabet): a Vec of the call's own
CallDecodeAlphabet ==
    /\ pc = "text"
    /\ before' = decode_buf
    /\ ret' = decode_alphabet(byte_buf, AlphabetOf(alph))
    /\ pc' = "fresh"
    /\ UNCHANGED <<alph, byte_buf, encoded, decode_buf, sliced>>
    /\ UNCHANGED alphabetVars

\* the caller turns to the next text; decode_buf stays as it is
NextText ==
    /\ pc \in {"reused", "fresh"}
    /\ byte_buf' = <<>>
    /\ before' = <<>>
    /\ ret' = NoCall
    /\ pc' = "text"
    /\ UNCHANGED <<alph, encoded, decode_buf, sliced>>
    /\ UNCHANGED alphabetVars

NextReuse ==
    \/ \E b \in WideBytes : PushText(b)
    \/ \E b \in SampleSymbols(alph) : PushText(b)
    \/ CallDecodeAlphabetVec
    \/ CallDecodeAlphabet
    \/ NextText

SpecReuse == InitReuse /\ [][NextReuse]_vars

(***************************************************************************)
(* What the claims on the reused Vec speak of.                             *)
(***************************************************************************)
\* a decode call has returned Err(InvalidByte)
FailedInvalidByte == pc \in {"reused", "fresh"} /\ ret.tag = "InvalidByte"

\* the bytes the symbols before the fault at offset i fill: 5 bits each
WholeBytesBefore(i) == (5 * i) \div 8

\* the decoding of the symbols before the fault at offset i, by themselves
DecodedBefore(i) == decode_alphabet(SubSeq(byte_buf, 1, i), AlphabetOf(alph)).vec

\* C11 as stated: when a decode call fails with InvalidByte, no decoded
\* bytes are handed back, and the caller's Vec has the length and contents
\* it had before the call.
C11_VecAsBeforeTheCall ==
    FailedInvalidByte =>
        /\ ret.vec = <<>>
        /\ decode_buf = before

\* C11, amended: when a decode call fails with InvalidByte at offset i of a
\* text of n bytes, the result carries no bytes; decode_alphabet leaves the
\* caller's Vec alone, and decode_alphabet_vec leaves it decoded_len(n) long,
\* its first 5*i/8 bytes those decoded from the symbols before the fault, the
\* rest what the Vec held before the call, zeros where it held nothing.
C11_ErrLeavesVecPartlyWritten ==
    FailedInvalidByte =>
        /\ ret.vec = <<>>
        /\ pc = "fresh" => decode_buf = before
        /\ pc = "reused" =>
              /\ Len(decode_buf) = decoded_len(Len(byte_buf)).val
              /\ \A k \in 1..Len(decode_buf) :
                    decode_buf[k] =
                        IF k <= WholeBytesBefore(ret.index)
                        THEN DecodedBefore(ret.index)[k]
                        ELSE IF k <= Len(before) THEN before[k]
                        ELSE 0

\* C11's case: decode_alphabet_vec met a byte of no alphabet after symbols
\* that fill a byte, and the Vec, not empty before the call, has changed
C11_Witness ==
    /\ pc = "reused"
    /\ ret.tag = "InvalidByte"
    /\ ret.index >= 2
    /\ before /= <<>>
    /\ decode_buf[1] /= before[1]
    /\ Len(decode_buf) /= Len(before)

\* C14: a decode_alphabet_vec call that returns Ok leaves the Vec equal to
\* the decoding of its text alone, whatever the Vec held before, leftovers
\* of earlier calls that returned Ok or Err included.
C14_VecIsThisTextsDecoding ==
    (pc = "reused" /\ ret.tag = "Ok") =>
        decode_buf = decode_alphabet(byte_buf, AlphabetOf(alph)).vec

\* C14's case: the Vec held what an earlier call left, longer than what the
\* text decodes to, and the call returned Ok with bytes
C14_Witness ==
    /\ pc = "reused"
    /\ ret.tag = "Ok"
    /\ before \notin PriorVecs
    /\ decode_buf /= <<>>
    /\ Len(before) > Len(decode_buf)
    /\ before[1] /= decode_buf[1]

====
